---- MODULE Spec2Model ----
(***************************************************************************)
(* Model of the MaxDrawdown protection                                     *)
(* (freqtrade/plugins/protections/max_drawdown_protection.py) and of the   *)
(* hyperopt resolvers (freqtrade/resolvers/hyperopt_resolver.py).          *)
(*                                                                         *)
(* Times are whole minutes, profits and drawdowns are whole units.         *)
(* An optional Python value is a set: {} is None, {v} is the value v.      *)
(***************************************************************************)
EXTENDS Integers, Sequences, FiniteSets, TLC

VARIABLES
    trades,      \* rows of the Trade table, in id order
    pconf,       \* protection_config of the MaxDrawdown instance
    op,          \* the last protection method called, with its arguments
    res,         \* what that call produced: a returned verdict or a raised error
    logged,      \* messages log_once has already emitted
    fs,          \* which plugin class each search location defines
    classes,     \* plugin class objects in memory, with their class attributes
    resolved,    \* resolver objects whose construction completed
    last         \* the last resolver construction: inputs, search, outcome

guardVars == <<trades, pconf, op, res, logged>>
resolverVars == <<fs, classes, resolved, last>>
vars == <<trades, pconf, op, res, logged, fs, classes, resolved, last>>

(***************************************************************************)
(* Bounds                                                                  *)
(***************************************************************************)
MaxTrades == 2
MaxTime == 1
MaxResolves == 2

None == {}
Some(v) == {v}

(***************************************************************************)
(* Trade table                                                             *)
(***************************************************************************)
Pairs == {"ETH/BTC", "XRP/BTC"}
Profits == {-2, 1}
Times == 0..MaxTime

\* An open trade has no close_date; NoDate stands for the NULL column.
NoDate == -1000

ClosedTrades ==
    [pair : Pairs, is_open : {FALSE}, close_date : Times, profit : Profits]
OpenTrades ==
    [pair : {"ETH/BTC"}, is_open : {TRUE}, close_date : {NoDate}, profit : {0}]
TradeRows == ClosedTrades \cup OpenTrades

Histories == UNION {[1..n -> TradeRows] : n \in 0..MaxTrades}

(***************************************************************************)
(* MaxDrawdown.__init__                                                    *)
(***************************************************************************)
DefaultLookbackPeriod == 60
DefaultTradeLimit == 1
DefaultMaxAllowedDrawdown == 0

\* protection_config as given; an absent key is None
ProtectionConfigs ==
    [lookback_period : {None, Some(1)},
     trade_limit : {None, Some(2)},
     max_allowed_drawdown : {None, Some(1)},
     stop_duration : {1, 2}]

Get(opt, default) == IF opt = None THEN default ELSE CHOOSE v \in opt : TRUE

lookback_period(c) == Get(c.lookback_period, DefaultLookbackPeriod)
trade_limit(c) == Get(c.trade_limit, DefaultTradeLimit)
max_allowed_drawdown(c) == Get(c.max_allowed_drawdown, DefaultMaxAllowedDrawdown)
stop_duration(c) == c.stop_duration

has_global_stop == TRUE
has_local_stop == FALSE

(***************************************************************************)
(* Collaborators of _max_drawdown                                          *)
(***************************************************************************)
\* Python truth value of the pair argument: None and '' are false
NoPair == "None"
PairArgs == {NoPair, ""} \cup Pairs
Truthy(pair) == pair \notin {NoPair, ""}

\* the filters of _max_drawdown: closed, closed after look_back_until, and of
\* the pair when one is given
Matches(t, look_back_until, pair) ==
    /\ t.is_open = FALSE
    /\ t.close_date > look_back_until
    /\ (Truthy(pair) => t.pair = pair)

\* Trade.get_trades(filters).all()
RECURSIVE get_trades(_, _, _)
get_trades(rows, look_back_until, pair) ==
    IF rows = <<>> THEN <<>>
    ELSE IF Matches(Head(rows), look_back_until, pair)
         THEN <<Head(rows)>> \o get_trades(Tail(rows), look_back_until, pair)
         ELSE get_trades(Tail(rows), look_back_until, pair)

\* stable sort by close_date
RECURSIVE InsertByCloseDate(_, _)
InsertByCloseDate(t, sorted) ==
    IF sorted = <<>> THEN <<t>>
    ELSE IF Head(sorted).close_date <= t.close_date
         THEN <<Head(sorted)>> \o InsertByCloseDate(t, Tail(sorted))
         ELSE <<t>> \o sorted

RECURSIVE SortByCloseDate(_)
SortByCloseDate(rows) ==
    IF rows = <<>> THEN <<>>
    ELSE LET n == Len(rows) IN
         InsertByCloseDate(rows[n], SortByCloseDate(SubSeq(rows, 1, n - 1)))

RECURSIVE CumSum(_, _)
CumSum(rows, acc) ==
    IF rows = <<>> THEN <<>>
    ELSE <<acc + Head(rows).profit>> \o CumSum(Tail(rows), acc + Head(rows).profit)

Max(a, b) == IF a >= b THEN a ELSE b

\* the largest fall of the cumulative profit below its running high
RECURSIVE LargestFall(_, _, _)
LargestFall(cum, high, worst) ==
    IF cum = <<>> THEN worst
    ELSE LET h == Max(high, Head(cum)) IN
         LargestFall(Tail(cum), h, Max(worst, h - Head(cum)))

\* calculate_max_drawdown(trades_df)[0]
calculate_max_drawdown(rows) ==
    LET cum == CumSum(SortByCloseDate(rows), 0) IN
    IF cum = <<>> THEN 0 ELSE LargestFall(cum, Head(cum), 0)

\* IProtection.calculate_lock_end(trades, stop_minutes): the helper is handed
\* the matched trades and the stop duration, and not date_now; the lock runs
\* stop_minutes from the latest close_date among them
RECURSIVE MaxCloseDate(_)
MaxCloseDate(rows) ==
    IF Len(rows) = 1 THEN rows[1].close_date
    ELSE Max(Head(rows).close_date, MaxCloseDate(Tail(rows)))

calculate_lock_end(rows, stop_minutes) == MaxCloseDate(rows) + stop_minutes

\* MaxDrawdown._reason
reason(c, drawdown) ==
    ToString(drawdown) \o " > " \o ToString(max_allowed_drawdown(c)) \o " in "
    \o ToString(lookback_period(c)) \o " min, locking for "
    \o ToString(stop_duration(c)) \o " min."

\* the text handed to log_once
StopMessage(c, pair, drawdown) ==
    "Trading for " \o pair \o " stopped due to " \o ToString(drawdown) \o " < "
    \o ToString(max_allowed_drawdown(c)) \o " within "
    \o ToString(lookback_period(c)) \o " minutes."

(***************************************************************************)
(* Outcomes of a call                                                      *)
(***************************************************************************)
NonTriggered == <<FALSE, None, None>>

Returned(verdict, computed, msgs) ==
    [status |-> "return", verdict |-> verdict, exc |-> "",
     computed |-> computed, msgs |-> msgs]
Raised(exc) ==
    [status |-> "raise", verdict |-> NonTriggered, exc |-> exc,
     computed |-> FALSE, msgs |-> {}]
NotCalled ==
    [status |-> "none", verdict |-> NonTriggered, exc |-> "",
     computed |-> FALSE, msgs |-> {}]

\* _max_drawdown losing the lock end of a triggered verdict
max_drawdown_without_until(c, rows, date_now, pair) ==
    LET matched == get_trades(rows, date_now - lookback_period(c), pair)
        drawdown == calculate_max_drawdown(matched)
    IN  IF Len(matched) < trade_limit(c)
        THEN Returned(NonTriggered, FALSE, {})
        ELSE IF drawdown > max_allowed_drawdown(c)
        THEN Returned(<<TRUE, None, Some(reason(c, drawdown))>>, TRUE,
                      {StopMessage(c, pair, drawdown)})
        ELSE Returned(NonTriggered, TRUE, {})

\* MaxDrawdown._max_drawdown(date_now, pair)
_max_drawdown(c, rows, date_now, pair) ==
    LET look_back_until == date_now - lookback_period(c)
        matched == get_trades(rows, look_back_until, pair)
        drawdown == calculate_max_drawdown(matched)
    IN  IF Len(matched) < trade_limit(c)
        THEN Returned(NonTriggered, FALSE, {})
        ELSE IF drawdown > max_allowed_drawdown(c)
        THEN Returned(<<TRUE,
                        Some(calculate_lock_end(matched, stop_duration(c))),
                        Some(reason(c, drawdown))>>,
                      TRUE, {StopMessage(c, pair, drawdown)})
        ELSE Returned(NonTriggered, TRUE, {})

\* MaxDrawdown.global_stop(date_now): the call self._max_drawdown(date_now)
\* leaves the required positional parameter pair unbound
global_stop(c, rows, date_now) ==
    Raised("TypeError: _max_drawdown() missing 1 required positional argument: 'pair'")

\* stop_per_pair evaluating the drawdown of the pair
stop_per_pair_evaluating(c, rows, pair, date_now) ==
    _max_drawdown(c, rows, date_now, pair)

\* MaxDrawdown.stop_per_pair(pair, date_now)
stop_per_pair(c, rows, pair, date_now) ==
    Returned(NonTriggered, FALSE, {})

(***************************************************************************)
(* The protection's state machine: one action per method call              *)
(***************************************************************************)
NoCall == [name |-> "none", date_now |-> 0, pair |-> NoPair]

InitGuard ==
    /\ trades \in Histories
    /\ pconf \in ProtectionConfigs
    /\ op = NoCall
    /\ res = NotCalled
    /\ logged = {}

\* log_once emits a message only the first time it is handed it
Finish(call, outcome) ==
    /\ op' = call
    /\ res' = outcome
    /\ logged' = logged \cup outcome.msgs
    /\ UNCHANGED <<trades, pconf>>

CallGlobalStop ==
    \E date_now \in Times :
        Finish([name |-> "global_stop", date_now |-> date_now, pair |-> NoPair],
               global_stop(pconf, trades, date_now))

CallStopPerPair ==
    \E date_now \in Times, pair \in Pairs :
        Finish([name |-> "stop_per_pair", date_now |-> date_now, pair |-> pair],
               stop_per_pair(pconf, trades, pair, date_now))

CallMaxDrawdown ==
    \E date_now \in Times, pair \in PairArgs :
        Finish([name |-> "_max_drawdown", date_now |-> date_now, pair |-> pair],
               _max_drawdown(pconf, trades, date_now, pair))

(***************************************************************************)
(* Plugin files and configuration seen by the resolvers                    *)
(***************************************************************************)
\* Path(__file__).parent.parent.joinpath('optimize').resolve()
current_path == "/pkg/freqtrade/optimize"

UserDataDir == "/cwd/user_data"
joinpath(dir, leaf) == dir \o "/" \o leaf

\* values of the 'hyperopt_path' key that name a directory
ExtraDirs == {"./x", "user_data/hyperopts"}

\* Path(extra_dir).resolve(): absolute, without '.' segments
resolve(path) ==
    CASE path = "./x" -> "/cwd/x"
      [] path = "user_data/hyperopts" -> "/cwd/user_data/hyperopts"

Locations == {resolve(d) : d \in ExtraDirs} \cup
             {joinpath(UserDataDir, "hyperopts"), current_path}

\* what a location defines: nothing, or one class with its base and attributes
NoClass == [name |-> "", base |-> "", attrs |-> {}]
LossClasses ==
    [name : {"MyLoss"}, base : {"IHyperOptLoss"},
     attrs : {{"hyperopt_loss_function"}, {}}]
HyperOptClasses ==
    [name : {"MyOpt"}, base : {"IHyperOpt"},
     attrs : {{"populate_buy_trend", "populate_sell_trend"},
              {"populate_sell_trend"}, {"populate_buy_trend"}}]
ClassDefs == {NoClass} \cup LossClasses \cup HyperOptClasses

\* config['ticker_interval'] may be a string or a number; str() renders it
TickerIntervals ==
    {[isnum |-> FALSE, text |-> "5m", num |-> 0],
     [isnum |-> TRUE, text |-> "", num |-> 5]}
str(v) == IF v.isnum THEN ToString(v.num) ELSE v.text

\* a configuration: None, or a dict whose absent keys are None
EmptyDict ==
    [is_none |-> FALSE, hyperopt |-> None, hyperopt_loss |-> None,
     hyperopt_path |-> None, user_data_dir |-> None, ticker_interval |-> None]
NoneConfig == [EmptyDict EXCEPT !.is_none = TRUE]
\* the 'hyperopt' and 'hyperopt_loss' keys: absent, empty, each naming a class
\* of its own kind, each naming a class of the other kind
PluginNames ==
    {<<None, None>>, <<Some(""), Some("")>>,
     <<Some("MyOpt"), Some("MyLoss")>>, <<Some("MyLoss"), Some("MyOpt")>>}
FullConfigs ==
    {[is_none |-> FALSE, hyperopt |-> n[1], hyperopt_loss |-> n[2],
      hyperopt_path |-> path, user_data_dir |-> Some(UserDataDir),
      ticker_interval |-> Some(t)] :
        n \in PluginNames,
        path \in {None, Some("")} \cup {Some(d) : d \in ExtraDirs},
        t \in TickerIntervals}
Configs == {NoneConfig, EmptyDict} \cup FullConfigs

\* config = config or {}
OrEmpty(config) == IF config.is_none THEN EmptyDict ELSE config

\* truth value of config.get(key): None and '' are false
IsSet(opt) == opt /= None /\ opt /= Some("")
Value(opt) == CHOOSE v \in opt : TRUE

(***************************************************************************)
(* Errors: an OperationalException and the segments of its message         *)
(***************************************************************************)
OperationalException(segments) ==
    [type |-> "OperationalException", msg |-> segments]
NoError == [type |-> "", msg |-> <<>>]

HyperOptNotSet ==
    OperationalException(
        <<"No Hyperopt set. Please use '--customhyperopt' to specify the Hyperopt class to use.">>)
HyperOptLossNotSet ==
    OperationalException(
        <<"No Hyperopt Loss Function set. Please use '--hyperopt-loss' to specify the Hyperopt Loss Function class to use.">>)
\* the message without the f prefix: the name is not interpolated
HyperOptNotLoadedLiteral(hyperopt_name) ==
    OperationalException(
        <<"Impossible to load Hyperopt '{hyperopt_name}'. This class does not exist or contains Python code errors.">>)
HyperOptNotLoaded(hyperopt_name) ==
    OperationalException(
        <<"Impossible to load Hyperopt '", hyperopt_name,
          "'. This class does not exist or contains Python code errors.">>)
HyperOptLossNotLoaded(hyper_loss_name) ==
    OperationalException(
        <<"Impossible to load HyperoptLoss '", hyper_loss_name,
          "'. This class does not exist or contains Python code errors.">>)
LossFunctionMissing(hyperoptloss_name) ==
    OperationalException(
        <<"Found hyperopt ", hyperoptloss_name,
          " does not implement 'hyperopt_loss_function'.">>)

WarnNoBuy ==
    "Hyperopt class does not provide populate_buy_trend() method. Using populate_buy_trend from the strategy."
WarnNoSell ==
    "Hyperopt class does not provide populate_sell_trend() method. Using populate_sell_trend from the strategy."

(***************************************************************************)
(* _load_hyperopt / _load_hyperoptloss                                     *)
(***************************************************************************)
\* abs_paths with extra_dir appended instead of inserted on top
abs_paths_appended(config, extra_dir) ==
    LET base == <<joinpath(Value(config.user_data_dir), "hyperopts"), current_path>>
    IN  IF IsSet(extra_dir) THEN base \o <<resolve(Value(extra_dir))>> ELSE base

\* abs_paths: the user directory and the built-in one, with extra_dir on top
abs_paths(config, extra_dir) ==
    LET base == <<joinpath(Value(config.user_data_dir), "hyperopts"), current_path>>
    IN  IF IsSet(extra_dir) THEN <<resolve(Value(extra_dir))>> \o base ELSE base

\* IResolver._load_object: the index in paths of the first location defining a
\* class of that name and base, 0 when there is none
RECURSIVE FirstMatch(_, _, _, _, _)
FirstMatch(files, paths, object_type, object_name, i) ==
    IF i > Len(paths) THEN 0
    ELSE IF /\ files[paths[i]].name = object_name
            /\ files[paths[i]].base = object_type
         THEN i
         ELSE FirstMatch(files, paths, object_type, object_name, i + 1)

_load_object(files, paths, object_type, object_name) ==
    FirstMatch(files, paths, object_type, object_name, 1)

\* the locations _load_object has looked into when it stops
Searched(paths, found) == IF found = 0 THEN paths ELSE SubSeq(paths, 1, found)

Loaded(paths, found, error) ==
    [paths |-> paths, searched |-> Searched(paths, found),
     loc |-> IF found = 0 THEN "" ELSE paths[found],
     error |-> IF found = 0 THEN error ELSE NoError]

\* HyperOptResolver._load_hyperopt
_load_hyperopt(files, hyperopt_name, config, extra_dir) ==
    LET paths == abs_paths(config, extra_dir) IN
    Loaded(paths, _load_object(files, paths, "IHyperOpt", hyperopt_name),
           HyperOptNotLoaded(hyperopt_name))

\* HyperOptLossResolver._load_hyperoptloss
_load_hyperoptloss(files, hyper_loss_name, config, extra_dir) ==
    LET paths == abs_paths(config, extra_dir) IN
    Loaded(paths, _load_object(files, paths, "IHyperOptLoss", hyper_loss_name),
           HyperOptLossNotLoaded(hyper_loss_name))

(***************************************************************************)
(* Class objects and instances                                             *)
(***************************************************************************)
\* The class of a loaded instance is class object k: one more than the
\* objects in memory when the module is executed anew, an existing one when
\* the module hands out a class that is already imported.
ClassOf(objs, loc, name, k) ==
    IF k = Len(objs) + 1
    THEN Append(objs, [loc |-> loc, name |-> name, ticker_interval |-> None])
    ELSE objs

IsClassOf(objs, loc, name, k) ==
    \/ k = Len(objs) + 1
    \/ /\ k \in 1..Len(objs)
       /\ objs[k].loc = loc
       /\ objs[k].name = name

\* hasattr(instance, attr)
hasattr(files, loc, attr) == attr \in files[loc].attrs

\* self.hyperoptloss.__class__.ticker_interval = str(config['ticker_interval'])
AssignTickerInterval(objs, k, config) ==
    [objs EXCEPT ![k].ticker_interval = Some(str(Value(config.ticker_interval)))]

(***************************************************************************)
(* Resolver constructors                                                   *)
(***************************************************************************)
\* cls is the class object of the located instance, 0 when none was located
Failed(kind, name, load, k, error, objs) ==
    [kind |-> kind, status |-> "raise", error |-> error, name |-> name,
     built |-> load.paths /= <<>>, paths |-> load.paths,
     searched |-> load.searched, loc |-> load.loc, cls |-> k, ticker |-> "",
     warnings |-> {}, objs |-> objs]

Constructed(kind, name, load, k, ticker, warnings, objs) ==
    [kind |-> kind, status |-> "ok", error |-> NoError, name |-> name,
     built |-> TRUE, paths |-> load.paths,
     searched |-> load.searched, loc |-> load.loc, cls |-> k, ticker |-> ticker,
     warnings |-> warnings, objs |-> objs]

NotLoaded == [paths |-> <<>>, searched |-> <<>>, loc |-> "", error |-> NoError]

\* the guard of HyperOptResolver.__init__
HyperOptConfigured(config) == IsSet(config.hyperopt)

\* the guard testing for an absent key only
HyperOptLossKeyPresent(config) == config.hyperopt_loss /= None

\* the guard of HyperOptLossResolver.__init__
HyperOptLossConfigured(config) == IsSet(config.hyperopt_loss)

\* HyperOptResolver.__init__(config), its instance being of class object k
HyperOptResolver(files, objs, given, k) ==
    LET config == OrEmpty(given) IN
    IF ~HyperOptConfigured(config)
    THEN Failed("hyperopt", "", NotLoaded, 0, HyperOptNotSet, objs)
    ELSE
      LET hyperopt_name == Value(config.hyperopt)
          load == _load_hyperopt(files, hyperopt_name, config, config.hyperopt_path)
      IN  IF load.error /= NoError
          THEN Failed("hyperopt", hyperopt_name, load, 0, load.error, objs)
          ELSE Constructed("hyperopt", hyperopt_name, load, k, "",
                 (IF hasattr(files, load.loc, "populate_buy_trend")
                  THEN {} ELSE {WarnNoBuy})
                 \cup
                 (IF hasattr(files, load.loc, "populate_sell_trend")
                  THEN {} ELSE {WarnNoSell}),
                 ClassOf(objs, load.loc, hyperopt_name, k))

\* the test without its 'not'
LossFunctionPresent(files, loc) == hasattr(files, loc, "hyperopt_loss_function")

\* not hasattr(self.hyperoptloss, 'hyperopt_loss_function')
LossFunctionAbsent(files, loc) == ~hasattr(files, loc, "hyperopt_loss_function")

\* HyperOptLossResolver.__init__(config), its instance being of class object k
HyperOptLossResolver(files, objs, given, k) ==
    LET config == OrEmpty(given) IN
    IF ~HyperOptLossConfigured(config)
    THEN Failed("hyperopt_loss", "", NotLoaded, 0, HyperOptLossNotSet, objs)
    ELSE
      LET hyperoptloss_name == Value(config.hyperopt_loss)
          load == _load_hyperoptloss(files, hyperoptloss_name, config,
                                     config.hyperopt_path)
      IN  IF load.error /= NoError
          THEN Failed("hyperopt_loss", hyperoptloss_name, load, 0, load.error, objs)
          ELSE
            LET assigned ==
                    AssignTickerInterval(
                        ClassOf(objs, load.loc, hyperoptloss_name, k), k, config)
            IN  IF LossFunctionAbsent(files, load.loc)
                THEN Failed("hyperopt_loss", hyperoptloss_name, load, k,
                            LossFunctionMissing(hyperoptloss_name), assigned)
                ELSE Constructed("hyperopt_loss", hyperoptloss_name, load, k,
                                 str(Value(config.ticker_interval)), {}, assigned)

(***************************************************************************)
(* The resolvers' state machine: one action per constructor                *)
(***************************************************************************)
NoConstruction ==
    [kind |-> "none", status |-> "none", error |-> NoError, name |-> "",
     built |-> FALSE, paths |-> <<>>, searched |-> <<>>, loc |-> "",
     cls |-> 0, ticker |-> "", warnings |-> {}, mutated |-> FALSE,
     given |-> NoneConfig]

InitResolver ==
    /\ fs \in [Locations -> ClassDefs]
    /\ classes = <<>>
    /\ resolved = <<>>
    /\ last = NoConstruction

\* whether a class object that was in memory before now has other attributes
Mutated(before, after) == \E i \in 1..Len(before) : after[i] /= before[i]

Construct(given, out) ==
    /\ out.status = "ok" => Len(resolved) < MaxResolves
    /\ Len(out.objs) <= MaxResolves
    /\ out.cls = 0 \/ IsClassOf(classes, out.loc, out.name, out.cls)
    /\ classes' = out.objs
    /\ resolved' =
          IF out.status = "ok"
          THEN Append(resolved, [kind |-> out.kind, cls |-> out.cls,
                                 loc |-> out.loc, ticker |-> out.ticker])
          ELSE resolved
    /\ last' = [kind |-> out.kind, status |-> out.status, error |-> out.error,
                name |-> out.name, built |-> out.built, paths |-> out.paths,
                searched |-> out.searched, loc |-> out.loc, cls |-> out.cls,
                ticker |-> out.ticker, warnings |-> out.warnings,
                mutated |-> Mutated(classes, out.objs), given |-> given]
    /\ UNCHANGED fs

ConstructHyperOptResolver ==
    \E config \in Configs, k \in 1..(Len(classes) + 1) :
        Construct(config, HyperOptResolver(fs, classes, config, k))

ConstructHyperOptLossResolver ==
    \E config \in Configs, k \in 1..(Len(classes) + 1) :
        Construct(config, HyperOptLossResolver(fs, classes, config, k))

(***************************************************************************)
(* Specifications                                                          *)
(***************************************************************************)
NoProtectionCall == op = NoCall /\ res = NotCalled /\ logged = {}
NoPluginFiles ==
    /\ fs = [l \in Locations |-> NoClass]
    /\ classes = <<>> /\ resolved = <<>> /\ last = NoConstruction
DefaultProtection ==
    /\ trades = <<>>
    /\ pconf = [lookback_period |-> None, trade_limit |-> None,
                max_allowed_drawdown |-> None, stop_duration |-> 2]
    /\ NoProtectionCall

Init == InitGuard /\ InitResolver

NextGuard ==
    \/ CallGlobalStop /\ UNCHANGED resolverVars
    \/ CallStopPerPair /\ UNCHANGED resolverVars
    \/ CallMaxDrawdown /\ UNCHANGED resolverVars

NextResolver ==
    \/ ConstructHyperOptResolver /\ UNCHANGED guardVars
    \/ ConstructHyperOptLossResolver /\ UNCHANGED guardVars

Next == NextGuard \/ NextResolver

Spec == Init /\ [][Next]_vars

\* The protection alone: one call on each Trade table and protection_config.
\* A call reads the table and the configuration and changes neither, so the
\* verdict of a call does not depend on the calls before it.
InitGuardOnly == InitGuard /\ NoPluginFiles

NextFirstCall ==
    \/ op = NoCall /\ CallGlobalStop /\ UNCHANGED resolverVars
    \/ op = NoCall /\ CallStopPerPair /\ UNCHANGED resolverVars
    \/ op = NoCall /\ CallMaxDrawdown /\ UNCHANGED resolverVars

SpecGuard == InitGuardOnly /\ [][NextFirstCall]_vars

\* The resolvers alone, on every layout of the plugin files.
InitResolverOnly == InitResolver /\ DefaultProtection

\* the first construction of a process
NextFirstConstruction ==
    \/ last = NoConstruction /\ ConstructHyperOptResolver /\ UNCHANGED guardVars
    \/ last = NoConstruction /\ ConstructHyperOptLossResolver
                             /\ UNCHANGED guardVars

SpecResolver == InitResolverOnly /\ [][NextFirstConstruction]_vars

\* Sequences of HyperOptLossResolver constructions in one process, on the
\* layouts that hold hyperopt loss classes only.
InitResolverSeq ==
    /\ InitResolverOnly
    /\ \A l \in Locations : fs[l].base /= "IHyperOpt"

NextLossConstruction == ConstructHyperOptLossResolver /\ UNCHANGED guardVars

SpecResolverSeq == InitResolverSeq /\ [][NextLossConstruction]_vars

(***************************************************************************)
(* Properties of the protection (checked under SpecGuard)                  *)
(***************************************************************************)
\* the closed trades the last call's filters select
Matched ==
    get_trades(trades, op.date_now - lookback_period(pconf), op.pair)
EnoughTrades == Len(Matched) >= trade_limit(pconf)
Drawdown == calculate_max_drawdown(Matched)
DrawdownExceeded == EnoughTrades /\ Drawdown > max_allowed_drawdown(pconf)

\* C1: global_stop(now) returns a verdict and does not raise, on every Trade
\* table and every now; and when at least trade_limit closed trades fall in
\* the lookback window and their drawdown is above max_allowed_drawdown, the
\* verdict is triggered and its reason is
\* '<drawdown> > <max_allowed_drawdown> in <lookback_period> min, locking for
\* <stop_duration> min.'
C1_GlobalStopReturnsVerdict ==
    op.name = "global_stop" =>
        /\ res.status = "return"
        /\ DrawdownExceeded =>
              /\ res.verdict[1] = TRUE
              /\ res.verdict[3] = Some(reason(pconf, Drawdown))

C3_TooFewTradesNotTriggered ==
    (op.name \in {"global_stop", "_max_drawdown"} /\ ~EnoughTrades) =>
        /\ res.status = "return"
        /\ res.verdict = NonTriggered
        /\ res.computed = FALSE

\* C4: stop_per_pair(pair, now) returns (False, None, None) on every input,
\* and the rule declares has_local_stop = False and has_global_stop = True
C4_StopPerPairNeverTriggers ==
    /\ has_local_stop = FALSE
    /\ has_global_stop = TRUE
    /\ op.name = "stop_per_pair" =>
          res.status = "return" /\ res.verdict = NonTriggered

\* stop_per_pair was called for a pair whose recent trades exceed the drawdown
C4_Witness ==
    /\ op.name = "stop_per_pair"
    /\ res.status = "return"
    /\ DrawdownExceeded

\* C8: in every returned verdict, lock_until is present iff triggered, and
\* reason is present iff triggered
C8_VerdictWellFormed ==
    res.status = "return" =>
        /\ (res.verdict[2] /= None) <=> (res.verdict[1] = TRUE)
        /\ (res.verdict[3] /= None) <=> (res.verdict[1] = TRUE)

\* a triggered verdict came back from the drawdown evaluation
C8_Witness ==
    /\ op.name = "_max_drawdown"
    /\ res.status = "return"
    /\ res.verdict[1] = TRUE
    /\ res.verdict[2] /= None

(***************************************************************************)
(* Properties of the resolvers (checked under SpecResolver, and under      *)
(* SpecResolverSeq for sequences of constructions)                         *)
(***************************************************************************)
Range(seq) == {seq[i] : i \in 1..Len(seq)}

\* the plugin name the last construction was given, under the key of its kind
GivenName ==
    IF last.kind = "hyperopt" THEN last.given.hyperopt
    ELSE last.given.hyperopt_loss
NameMissing ==
    last.kind /= "none" /\ (last.given.is_none \/ GivenName \in {None, Some("")})
WantedBase == IF last.kind = "hyperopt" THEN "IHyperOpt" ELSE "IHyperOptLoss"
Defines(loc) ==
    /\ GivenName /= None
    /\ fs[loc].name \in GivenName
    /\ fs[loc].base = WantedBase
NotFoundErrors ==
    {HyperOptNotLoaded(n) : n \in {"", "MyOpt", "MyLoss"}} \cup
    {HyperOptLossNotLoaded(n) : n \in {"", "MyOpt", "MyLoss"}}

\* C5: with the plugin name absent or empty, or the config None, construction
\* fails with the not-configured error before the search path is built and
\* before any location is searched, and that error differs from every
\* not-found error
C5_NotConfiguredBeforeSearch ==
    NameMissing =>
        /\ last.status = "raise"
        /\ last.error = (IF last.kind = "hyperopt" THEN HyperOptNotSet
                         ELSE HyperOptLossNotSet)
        /\ last.built = FALSE
        /\ last.searched = <<>>
        /\ last.error \notin NotFoundErrors

\* an empty hyperopt_loss name was given while a loss class is on the path
C5_Witness ==
    /\ last.kind = "hyperopt_loss"
    /\ last.given.hyperopt_loss = Some("")
    /\ last.given.hyperopt_path = Some("./x")
    /\ fs["/cwd/x"].base = "IHyperOptLoss"
    /\ last.status = "raise"

\* a name was given and no location of the search path defines it
NoMatch ==
    /\ last.kind /= "none"
    /\ ~NameMissing
    /\ \A loc \in Range(last.paths) : ~Defines(loc)

C7_SearchPathOrder ==
    last.built =>
        LET n == Len(last.paths)
            extra == last.given.hyperopt_path
        IN  /\ last.paths[n] = "/pkg/freqtrade/optimize"
            /\ last.paths[n - 1] = "/cwd/user_data/hyperopts"
            /\ extra \in {None, Some("")} => n = 2
            /\ extra = Some("./x") => n = 3 /\ last.paths[1] = "/cwd/x"
            /\ extra = Some("user_data/hyperopts") =>
                  n = 3 /\ last.paths[1] = "/cwd/user_data/hyperopts"
            /\ \A i \in 1..n :
                  (Defines(last.paths[i]) /\ \A j \in 1..(i - 1) : ~Defines(last.paths[j]))
                  => last.loc = last.paths[i]

\* the override and the built-in directory both define the class, and the
\* instance is the override's
C7_Witness ==
    /\ last.status = "ok"
    /\ Len(last.paths) = 3
    /\ Defines(last.paths[1])
    /\ Defines(last.paths[3])
    /\ last.paths[1] /= last.paths[3]
    /\ fs[last.paths[1]] /= fs[last.paths[3]]
    /\ last.loc = last.paths[1]

Located == last.kind /= "none" /\ last.loc /= ""

\* C9: a located loss instance without hyperopt_loss_function makes resolution
\* fail with the invalid-contract error and no resolver is returned; a located
\* hyperopt instance without populate_buy_trend or populate_sell_trend still
\* resolves, with one warning for each missing method
C9_RequiredAndOptionalOperations ==
    /\ (Located /\ last.kind = "hyperopt_loss"
           /\ "hyperopt_loss_function" \notin fs[last.loc].attrs) =>
          /\ last.status = "raise"
          /\ last.error = LossFunctionMissing(last.name)
          /\ resolved = <<>>
    /\ (Located /\ last.kind = "hyperopt") =>
          /\ last.status = "ok"
          /\ Len(resolved) = 1
          /\ resolved[1].loc = last.loc
          /\ (WarnNoBuy \in last.warnings)
               <=> ("populate_buy_trend" \notin fs[last.loc].attrs)
          /\ (WarnNoSell \in last.warnings)
               <=> ("populate_sell_trend" \notin fs[last.loc].attrs)

\* a loss class without hyperopt_loss_function was located and rejected
C9_Witness ==
    /\ Located
    /\ last.kind = "hyperopt_loss"
    /\ "hyperopt_loss_function" \notin fs[last.loc].attrs
    /\ last.status = "raise"

\* C10: after any sequence of HyperOptLossResolver constructions, the
\* ticker_interval seen on each instance returned so far is the one of the
\* configuration it was resolved with, and a construction that fails has
\* changed no class that was in memory before it
C10_InstancesIndependent ==
    /\ \A i \in 1..Len(resolved) :
          resolved[i].kind = "hyperopt_loss" =>
              classes[resolved[i].cls].ticker_interval = Some(resolved[i].ticker)
    /\ last.status = "raise" => last.mutated = FALSE

====
